---- MODULE Spec2Model ----
(***************************************************************************)
(* type-census: population counts of live instances per type.              *)
(*                                                                         *)
(* Two state machines are modelled here:                                   *)
(*   CensusSpec   src/src/lib.rs     Census (DashMap<TypeId, &AtomicU64>), *)
(*                                   Instance::new / clone / drop,         *)
(*                                   Tabulate::instances                   *)
(*   CounterSpec  src/src/counter.rs RelaxedCounter, SeqCstCounter,        *)
(*                                   DistributedCounter<BUCKETS>           *)
(*   DeriveSpec   src/derive/src/lib.rs  #[derive(Tabulate)]: the counter  *)
(*                                   behind the generated counter()        *)
(***************************************************************************)
EXTENDS Integers, Sequences, FiniteSets, Bags, TLC

\* ------------------------------------------------------------------ bounds
\* Number of OS threads running operations concurrently.
NumThreads == 2
\* Most guards alive at once (memory is finite; each guard holds a reference).
MaxGuards == 15
\* Width of the census population count in the model (AtomicU64 in the code,
\* scaled down; MaxGuards stays below 2^CountBits as it stays below 2^64).
CountBits == 4

\* Width of isize in the model (64 in the code, scaled down).
IsizeBits == 5
\* Largest BUCKETS of a DistributedCounter<BUCKETS>.
MaxBuckets == 2
\* Most add_assign, sub_assign and fetch calls issued in one run, over all threads.
MaxCalls == 4
\* Attempts of one add_assign call whose target bucket is recorded.
MaxAttempts == 3

Threads == 1..NumThreads

\* The tracked types: two instantiations of the generic Foo<T> of the examples.
\* Both use the one static CENSUS that Census!() places in impl<T> Tabulate
\* for Foo<T>.
Types == {"Foo<i8>", "Foo<u8>"}

\* Mutant: the key names the generic family, not the concrete type.
TypeId_of_family(T) == "Foo"

\* TypeId::of::<T>(): a distinct identifier for every concrete type.
TypeId_of(T) == T

\* The keys the DashMap can hold.
TypeIds == {TypeId_of(T) : T \in Types}

\* The ways the keys can fall into the DashMap's shards (each shard behind one
\* RwLock): which keys collide is decided by their FxHasher hashes.
ShardAssignments ==
    { [id \in TypeIds |-> id],
      [id \in TypeIds |-> CHOOSE one \in TypeIds : TRUE] }

\* No entry / no reference.
Null == 0

\* AtomicU64 arithmetic wraps modulo 2^64 (2^CountBits in the model).
CountModulus == 2 ^ CountBits

VARIABLES
    \* ---- lib.rs
    counts,     \* Census.counts: TypeId -> address of its AtomicU64, or Null
    heap,       \* the leaked AtomicU64 boxes: heap[a] is the value at address a
    shardOf,    \* the DashMap shard each TypeId hashes to
    lock,       \* per shard: the thread holding its write lock, or 0
    guards,     \* bag of the live Instance<T> values: [ty, count]
    pc,         \* per thread: position inside Instance::new
    ty,         \* per thread: ty_id of the Instance::new in progress
    census,     \* per thread: the reference handed to from_count
    ret,        \* value returned by the most recent instances() call
    qty,        \* type of the most recent instances() call, or "none"
    net,        \* guards of qty constructed minus destroyed since that call
    built,      \* whether a guard of qty was constructed since that call
    lastOp,     \* the operation that completed most recently
    \* ---- counter.rs
    kind,       \* the Counter implementation under test
    BUCKETS,    \* const BUCKETS of DistributedCounter (1 for a single cell)
    counters,   \* the cells: counters[1..BUCKETS], or the one `counter`
    THREADS,    \* static THREADS: AtomicUsize of thread_id()
    ID,         \* thread_local ID of each thread, or Unset
    cpc,        \* per thread: position inside add_assign / fetch
    n,          \* per thread: the n handed to add_assign
    bucket,     \* per thread: local `bucket` of add_assign (0-based)
    count,      \* per thread: `count` loaded by try_add_assign
    sum,        \* per thread: `sum` of fetch
    next,       \* per thread: the next counter fetch will load (1-based)
    fret,       \* per thread: Returned(v) of its last fetch, or NoValue
    delta,      \* per thread: the change the call in progress stands for
    applied,    \* exact sum of the deltas of the calls that have returned
    calls,      \* per thread: add_assign/sub_assign calls issued
    quiet,      \* per thread: no such call was in flight since its fetch began
    observed,   \* whether this run records the history below
    targets,    \* per thread: buckets its current/last add_assign attempted, in order
    loadedFrom, \* per thread: the bucket `count` was loaded from, or Unset
    seen,       \* per thread: totals the buckets held during its current/last fetch
    reach,      \* per thread: sums of the writes before its fetch plus some during it
    \* ---- derive/src/lib.rs
    COUNTER,    \* the statics `COUNTER` of the generated counter() functions
    live,       \* bag of the types T of the live Instance<T> values
    reads       \* per type: Returned(v) of instances() since the last change

censusVars == <<counts, heap, shardOf, lock, guards, pc, ty, census, ret, qty, net,
                built, lastOp>>

historyVars == <<observed, targets, loadedFrom, seen, reach>>

counterVars == <<kind, BUCKETS, counters, THREADS, ID, cpc, n, bucket,
                 count, sum, next, fret, delta, applied, calls, quiet, historyVars>>

deriveVars == <<COUNTER, live, reads>>

vars == <<censusVars, counterVars, deriveVars>>

\* ------------------------------------------------------- atomics (lib.rs)
\* Mutant: the increment is applied twice.
fetch_add_u64_twice(h, a) == [h EXCEPT ![a] = (@ + 2) % CountModulus]

\* AtomicU64::fetch_add(1, SeqCst) on the cell at address a.
fetch_add_u64(h, a) == [h EXCEPT ![a] = (@ + 1) % CountModulus]

\* Mutant: the decrement is lost.
fetch_sub_u64_skipped(h, a) == h

\* AtomicU64::fetch_sub(1, SeqCst) on the cell at address a.
fetch_sub_u64(h, a) == [h EXCEPT ![a] = (@ - 1) % CountModulus]

\* Instance { count: census, _type: PhantomData<T> }
Guard(T, a) == [ty |-> T, count |-> a]

\* Mutant: a miss falls back to the first counter ever allocated.
instances_miss_reads_first(T) ==
    IF counts[TypeId_of(T)] = Null
        THEN (IF heap = <<>> THEN 0 ELSE heap[1])
        ELSE heap[counts[TypeId_of(T)]]

\* Census::instances::<T>(): counts.get(&TypeId::of::<T>())
\*     .map(|count| count.load(SeqCst)).unwrap_or(0)
instances(T) ==
    IF counts[TypeId_of(T)] = Null THEN 0 ELSE heap[counts[TypeId_of(T)]]

\* Mutant: the closure's value is inserted whether or not the key is present.
Vacant_always(id) == TRUE

\* DashMap Entry::or_insert_with inserts only into a vacant entry.
Vacant(id) == counts[id] = Null

\* ------------------------------------------------------------ ghost state
\* Bookkeeping of the round trip since the last instances() call.
Constructed(T) ==
    /\ net' = IF T = qty THEN net + 1 ELSE net
    /\ built' = (built \/ T = qty)

Destroyed(T) ==
    /\ net' = IF T = qty THEN net - 1 ELSE net
    /\ built' = built

Completed(op) == lastOp' = op

\* ---------------------------------------------------------------- actions
\* No counter of counter.rs is in use.
CounterUnused ==
    /\ kind = "none"
    /\ BUCKETS = 0
    /\ counters = <<>>
    /\ THREADS = 0
    /\ ID = <<>>
    /\ cpc = <<>>
    /\ n = <<>>
    /\ bucket = <<>>
    /\ count = <<>>
    /\ sum = <<>>
    /\ next = <<>>
    /\ fret = <<>>
    /\ delta = <<>>
    /\ applied = 0
    /\ calls = <<>>
    /\ quiet = <<>>
    /\ observed = FALSE
    /\ targets = <<>>
    /\ loadedFrom = <<>>
    /\ seen = <<>>
    /\ reach = <<>>

\* No type derives Tabulate.
DeriveUnused ==
    /\ COUNTER = <<>>
    /\ live = EmptyBag
    /\ reads = <<>>

CensusInit ==
    /\ CounterUnused
    /\ DeriveUnused
    /\ counts = [id \in TypeIds |-> Null]
    /\ heap = <<>>
    /\ shardOf \in ShardAssignments
    /\ lock = [s \in TypeIds |-> 0]
    /\ guards = EmptyBag
    /\ pc = [t \in Threads |-> "idle"]
    /\ ty = [t \in Threads |-> "none"]
    /\ census = [t \in Threads |-> Null]
    /\ ret = 0
    /\ qty = "none"
    /\ net = 0
    /\ built = FALSE
    /\ lastOp = "none"

\* Guards alive or about to be (an Instance::new in progress).
Population == BagCardinality(guards) + Cardinality({t \in Threads : pc[t] # "idle"})

\* Instance::new: let ty_id = TypeId::of::<T>();
NewCall(t, T) ==
    /\ pc[t] = "idle"
    /\ Population < MaxGuards
    /\ ty' = [ty EXCEPT ![t] = T]
    /\ pc' = [pc EXCEPT ![t] = "entry"]
    /\ UNCHANGED <<counts, heap, shardOf, lock, guards, census, ret, qty, net,
                   built, lastOp>>
    /\ UNCHANGED <<counterVars, deriveVars>>

\* Instance::new: T::census().counts.entry(ty_id)
\*     .or_insert_with(|| Box::leak(Box::new(AtomicU64::new(0)))).value()
\* entry() takes the shard's write lock; the RefMut it returns is a temporary
\* of the tail expression and keeps the lock until from_count has returned.
NewEntry(t) ==
    LET id == TypeId_of(ty[t]) IN
    /\ pc[t] = "entry"
    /\ lock[shardOf[id]] = 0
    /\ lock' = [lock EXCEPT ![shardOf[id]] = t]
    /\ IF Vacant(id)
          THEN /\ heap' = Append(heap, 0)
               /\ counts' = [counts EXCEPT ![id] = Len(heap) + 1]
          ELSE UNCHANGED <<heap, counts>>
    /\ census' = [census EXCEPT ![t] = counts'[id]]
    /\ pc' = [pc EXCEPT ![t] = "from_count"]
    /\ UNCHANGED <<shardOf, guards, ty, ret, qty, net, built, lastOp>>
    /\ UNCHANGED <<counterVars, deriveVars>>

\* Instance::new: Instance::from_count(census), after which the RefMut is
\* dropped and the shard unlocked.
NewFromCount(t) ==
    /\ pc[t] = "from_count"
    /\ heap' = fetch_add_u64(heap, census[t])
    /\ guards' = guards (+) SetToBag({Guard(ty[t], census[t])})
    /\ lock' = [lock EXCEPT ![shardOf[TypeId_of(ty[t])]] = 0]
    /\ Constructed(ty[t])
    /\ Completed("new")
    /\ pc' = [pc EXCEPT ![t] = "idle"]
    /\ ty' = [ty EXCEPT ![t] = "none"]
    /\ census' = [census EXCEPT ![t] = Null]
    /\ UNCHANGED <<counts, shardOf, ret, qty>>
    /\ UNCHANGED <<counterVars, deriveVars>>

\* Mutant: a field-wise copy of the guard, sharing the source's increment.
Clone_shares_increment(t, g) ==
    /\ pc[t] = "idle"
    /\ Population < MaxGuards
    /\ BagIn(g, guards)
    /\ guards' = guards (+) SetToBag({Guard(g.ty, g.count)})
    /\ Constructed(g.ty)
    /\ Completed("clone")
    /\ UNCHANGED <<counts, heap, shardOf, lock, pc, ty, census, ret, qty>>
    /\ UNCHANGED <<counterVars, deriveVars>>

\* <Instance<T> as Clone>::clone(&g): Self::from_count(self.count)
Clone(t, g) ==
    /\ pc[t] = "idle"
    /\ Population < MaxGuards
    /\ BagIn(g, guards)
    /\ heap' = fetch_add_u64(heap, g.count)
    /\ guards' = guards (+) SetToBag({Guard(g.ty, g.count)})
    /\ Constructed(g.ty)
    /\ Completed("clone")
    /\ UNCHANGED <<counts, shardOf, lock, pc, ty, census, ret, qty>>
    /\ UNCHANGED <<counterVars, deriveVars>>

\* Mutant: the drop that brings a counter to zero removes its registry entry.
Drop_removes_empty_entry(t, g) ==
    /\ pc[t] = "idle"
    /\ BagIn(g, guards)
    /\ heap' = fetch_sub_u64(heap, g.count)
    /\ guards' = guards (-) SetToBag({g})
    /\ counts' = IF heap'[g.count] = 0
                    THEN [counts EXCEPT ![TypeId_of(g.ty)] = Null]
                    ELSE counts
    /\ Destroyed(g.ty)
    /\ Completed("drop")
    /\ UNCHANGED <<shardOf, lock, pc, ty, census, ret, qty>>
    /\ UNCHANGED <<counterVars, deriveVars>>

\* <Instance<T> as Drop>::drop(&mut g): self.count.fetch_sub(1, SeqCst)
Drop(t, g) ==
    /\ pc[t] = "idle"
    /\ BagIn(g, guards)
    /\ heap' = fetch_sub_u64(heap, g.count)
    /\ guards' = guards (-) SetToBag({g})
    /\ Destroyed(g.ty)
    /\ Completed("drop")
    /\ UNCHANGED <<counts, shardOf, lock, pc, ty, census, ret, qty>>
    /\ UNCHANGED <<counterVars, deriveVars>>

\* Mutant: the lookup goes through entry().or_insert_with(..) as in
\* Instance::new, leaving a zero-valued entry behind.
Instances_get_or_insert(t, T) ==
    /\ pc[t] = "idle"
    /\ lock[shardOf[TypeId_of(T)]] = 0
    /\ IF Vacant(TypeId_of(T))
          THEN /\ heap' = Append(heap, 0)
               /\ counts' = [counts EXCEPT ![TypeId_of(T)] = Len(heap) + 1]
          ELSE UNCHANGED <<heap, counts>>
    /\ ret' = instances(T)
    /\ qty' = T
    /\ net' = 0
    /\ built' = FALSE
    /\ Completed("instances")
    /\ UNCHANGED <<shardOf, lock, guards, pc, ty, census>>
    /\ UNCHANGED <<counterVars, deriveVars>>

\* Tabulate::instances() -> Census::instances::<T>(). get() takes the shard's
\* read lock (it waits while a writer holds the shard), the load happens under
\* it and the lock is released before returning.
Instances(t, T) ==
    /\ pc[t] = "idle"
    /\ lock[shardOf[TypeId_of(T)]] = 0
    /\ ret' = instances(T)
    /\ qty' = T
    /\ net' = 0
    /\ built' = FALSE
    /\ Completed("instances")
    /\ UNCHANGED <<counts, heap, shardOf, lock, guards, pc, ty, census>>
    /\ UNCHANGED <<counterVars, deriveVars>>

CensusNext ==
    \/ \E t \in Threads, T \in Types : NewCall(t, T)
    \/ \E t \in Threads : NewEntry(t)
    \/ \E t \in Threads : NewFromCount(t)
    \/ \E t \in Threads, g \in BagToSet(guards) : Clone(t, g)
    \/ \E t \in Threads, g \in BagToSet(guards) : Drop(t, g)
    \/ \E t \in Threads, T \in Types : Instances(t, T)

CensusSpec == CensusInit /\ [][CensusNext]_vars


\* ================================================== counter.rs: the counters
\* isize::MIN and isize::MAX.
MinIsize == -(2 ^ (IsizeBits - 1))

MaxIsize == 2 ^ (IsizeBits - 1) - 1

\* Two's complement reduction of an integer into isize.
Wrap(x) == ((x - MinIsize) % (2 ^ IsizeBits)) + MinIsize

\* The arguments the calls are issued with.
Deltas == {MinIsize, 1}

\* thread_local ID not yet initialised; no bucket loaded from.
Unset == -1

\* No fetch result.
NoValue == <<>>

\* Some(v) of a returned value.
Returned(v) == <<v>>

\* Mutant: the addition saturates at the bounds of isize.
saturating_add(a, b) ==
    IF a + b > MaxIsize THEN MaxIsize ELSE IF a + b < MinIsize THEN MinIsize ELSE a + b

\* isize::wrapping_add
wrapping_add(a, b) == Wrap(a + b)

\* Mutant: the subtraction adds.
fetch_sub_isize_adds(c, d) == Wrap(c + d)

\* AtomicIsize::fetch_add / fetch_sub: wrap around on overflow, under either
\* Ordering. The read-modify-write is atomic and the modifications of one
\* atomic are totally ordered under Relaxed as under SeqCst.
fetch_add_isize(c, d) == Wrap(c + d)

fetch_sub_isize(c, d) == Wrap(c - d)

\* Mutant: the exchange stores without comparing.
compare_exchange_blind(current, expected) == TRUE

\* compare_exchange_weak(count, new, SeqCst, SeqCst) may succeed only when the
\* bucket still holds `count` (and may fail spuriously even then).
compare_exchange_may_succeed(current, expected) == current = expected

\* Mutant: a failed attempt is retried on the same bucket.
next_bucket_stuck(b) == b

\* bucket = bucket.wrapping_add(1) % BUCKETS
next_bucket(b) == (b + 1) % BUCKETS

\* A write call (add_assign / sub_assign) of thread u is in flight.
Writing(u) == cpc[u] \in {"load", "cas"}

\* Starting a write call ends the quiet period of every fetch result.
Disturb == quiet' = [u \in Threads |-> FALSE]

\* The static CENSUS is never touched.
CensusUnused ==
    /\ counts = [id \in TypeIds |-> Null]
    /\ heap = <<>>
    /\ shardOf = [id \in TypeIds |-> id]
    /\ lock = [s \in TypeIds |-> 0]
    /\ guards = EmptyBag
    /\ pc = [t \in Threads |-> "idle"]
    /\ ty = [t \in Threads |-> "none"]
    /\ census = [t \in Threads |-> Null]
    /\ ret = 0
    /\ qty = "none"
    /\ net = 0
    /\ built = FALSE
    /\ lastOp = "none"

\* A fresh counter: Counter::ZERO, no thread has called it.
CounterZero ==
    /\ CensusUnused
    /\ DeriveUnused
    /\ kind \in {"RelaxedCounter", "SeqCstCounter", "DistributedCounter"}
    /\ BUCKETS \in 1..MaxBuckets
    /\ kind # "DistributedCounter" => BUCKETS = 1
    /\ counters = [i \in 1..BUCKETS |-> 0]
    /\ THREADS = 0
    /\ ID = [t \in Threads |-> Unset]
    /\ cpc = [t \in Threads |-> "idle"]
    /\ n = [t \in Threads |-> 0]
    /\ bucket = [t \in Threads |-> 0]
    /\ count = [t \in Threads |-> 0]
    /\ sum = [t \in Threads |-> 0]
    /\ next = [t \in Threads |-> 0]
    /\ fret = [t \in Threads |-> NoValue]
    /\ delta = [t \in Threads |-> 0]
    /\ applied = 0
    /\ calls = [t \in Threads |-> 0]
    /\ quiet = [t \in Threads |-> FALSE]
    /\ targets = [t \in Threads |-> <<>>]
    /\ loadedFrom = [t \in Threads |-> Unset]
    /\ seen = [t \in Threads |-> {}]
    /\ reach = [t \in Threads |-> {}]

CounterInit == CounterZero /\ observed = TRUE

RECURSIVE SumOf(_)
SumOf(cs) == IF cs = <<>> THEN 0 ELSE wrapping_add(Head(cs), SumOf(Tail(cs)))

\* The true total: the sum of all buckets, in isize arithmetic.
BucketTotal(cs) == SumOf(cs)

\* A call of thread t begins: the history of its previous call is dropped.
NewHistory(t) ==
    /\ targets' = [targets EXCEPT ![t] = <<>>]
    /\ seen' = [seen EXCEPT ![t] = {}]
    /\ reach' = [reach EXCEPT ![t] = {}]
    /\ UNCHANGED <<observed, loadedFrom>>

\* A write of `change` has taken effect: every fetch in progress has now
\* overlapped the new total and may or may not include the write.
Overlapped(change) ==
    /\ seen' = [u \in Threads |->
                  IF observed /\ cpc[u] = "fetch"
                      THEN seen[u] \cup {BucketTotal(counters')} ELSE seen[u]]
    /\ reach' = [u \in Threads |->
                  IF observed /\ cpc[u] = "fetch"
                      THEN reach[u] \cup {Wrap(v + change) : v \in reach[u]}
                      ELSE reach[u]]

RECURSIVE Total(_, _)
Total(f, S) ==
    IF S = {} THEN 0
    ELSE LET x == CHOOSE y \in S : TRUE IN f[x] + Total(f, S \ {x})

\* Room for one more call.
MayCall(t) == cpc[t] = "idle" /\ Total(calls, Threads) < MaxCalls

\* ---- RelaxedCounter / SeqCstCounter
Cell == kind \in {"RelaxedCounter", "SeqCstCounter"}

\* add_assign(n): let _ = self.counter.fetch_add(n, ordering)
CellAddAssign(t, d) ==
    /\ Cell
    /\ MayCall(t)
    /\ counters' = [counters EXCEPT ![1] = fetch_add_isize(@, d)]
    /\ applied' = applied + d
    /\ calls' = [calls EXCEPT ![t] = @ + 1]
    /\ fret' = [fret EXCEPT ![t] = NoValue]
    /\ Disturb
    /\ UNCHANGED <<kind, BUCKETS, THREADS, ID, cpc, n, bucket, count,
                   sum, next, delta, historyVars>>
    /\ UNCHANGED <<censusVars, deriveVars>>

\* sub_assign(n): let _ = self.counter.fetch_sub(n, ordering)
CellSubAssign(t, d) ==
    /\ Cell
    /\ MayCall(t)
    /\ counters' = [counters EXCEPT ![1] = fetch_sub_isize(@, d)]
    /\ applied' = applied - d
    /\ calls' = [calls EXCEPT ![t] = @ + 1]
    /\ fret' = [fret EXCEPT ![t] = NoValue]
    /\ Disturb
    /\ UNCHANGED <<kind, BUCKETS, THREADS, ID, cpc, n, bucket, count,
                   sum, next, delta, historyVars>>
    /\ UNCHANGED <<censusVars, deriveVars>>

\* fetch(): self.counter.load(ordering)
CellFetch(t) ==
    /\ Cell
    /\ MayCall(t)
    /\ fret' = [fret EXCEPT ![t] = Returned(counters[1])]
    /\ quiet' = [quiet EXCEPT ![t] = TRUE]
    /\ calls' = [calls EXCEPT ![t] = @ + 1]
    /\ UNCHANGED <<kind, BUCKETS, counters, THREADS, ID, cpc, n,
                   bucket, count, sum, next, delta, applied, historyVars>>
    /\ UNCHANGED <<censusVars, deriveVars>>

\* ---- DistributedCounter<BUCKETS>
Distributed == kind = "DistributedCounter"

\* Mutant: the identity is drawn afresh on every call instead of being cached
\* in the thread-local.
thread_id_uncached(t) == THREADS

\* DistributedCounter::thread_id(): ID.try_with(|id| *id).unwrap_or(0). The
\* first access of a thread initialises its thread-local ID with
\* THREADS.fetch_add(1, SeqCst); try_with cannot fail on a live thread.
thread_id(t) == IF ID[t] = Unset THEN THREADS ELSE ID[t]

\* DistributedCounter::add_assign(n), up to the loop: id = Self::thread_id(),
\* bucket = id % BUCKETS. `change` is what the caller's call stands for.
EnterAddAssign(t, m, change) ==
    /\ ID' = [ID EXCEPT ![t] = thread_id(t)]
    /\ THREADS' = IF ID[t] = Unset THEN THREADS + 1 ELSE THREADS
    /\ bucket' = [bucket EXCEPT ![t] = thread_id(t) % BUCKETS]
    /\ n' = [n EXCEPT ![t] = m]
    /\ delta' = [delta EXCEPT ![t] = change]
    /\ cpc' = [cpc EXCEPT ![t] = "load"]
    /\ calls' = [calls EXCEPT ![t] = @ + 1]
    /\ fret' = [fret EXCEPT ![t] = NoValue]
    /\ Disturb
    /\ NewHistory(t)

\* <DistributedCounter as Counter>::add_assign(n): self.add_assign(n)
AddAssign(t, d) ==
    /\ Distributed
    /\ MayCall(t)
    /\ EnterAddAssign(t, d, d)
    /\ UNCHANGED <<kind, BUCKETS, counters, count, sum, next, applied>>
    /\ UNCHANGED <<censusVars, deriveVars>>

\* <DistributedCounter as Counter>::sub_assign(n): self.add_assign(-n).
\* -n overflows for n = isize::MIN: a panic in a build with overflow checks
\* (the call never reaches add_assign), isize::MIN again in a build without.
SubAssign(t, d) ==
    /\ Distributed
    /\ MayCall(t)
    /\ \/ /\ d = MinIsize
          /\ cpc' = [cpc EXCEPT ![t] = "panicked"]
          /\ calls' = [calls EXCEPT ![t] = @ + 1]
          /\ fret' = [fret EXCEPT ![t] = NoValue]
          /\ NewHistory(t)
          /\ UNCHANGED <<ID, THREADS, bucket, n, delta, quiet>>
       \/ EnterAddAssign(t, Wrap(-d), -d)
    /\ UNCHANGED <<kind, BUCKETS, counters, count, sum, next, applied>>
    /\ UNCHANGED <<censusVars, deriveVars>>

\* try_add_assign: let count = bucket.load(SeqCst)
TryLoad(t) ==
    /\ cpc[t] = "load"
    /\ count' = [count EXCEPT ![t] = counters[bucket[t] + 1]]
    /\ cpc' = [cpc EXCEPT ![t] = "cas"]
    /\ loadedFrom' = [loadedFrom EXCEPT ![t] = bucket[t]]
    /\ targets' = [targets EXCEPT ![t] =
                      IF observed /\ Len(@) < MaxAttempts
                          THEN Append(@, bucket[t]) ELSE @]
    /\ UNCHANGED <<kind, BUCKETS, counters, THREADS, ID, n, bucket,
                   sum, next, fret, delta, applied, calls, quiet,
                   observed, seen, reach>>
    /\ UNCHANGED <<censusVars, deriveVars>>

\* Mutant: the exchange stores n itself, not count + n.
CasOk_stores_n(t) ==
    /\ cpc[t] = "cas"
    /\ compare_exchange_may_succeed(counters[bucket[t] + 1], count[t])
    /\ counters' = [counters EXCEPT ![bucket[t] + 1] = n[t]]
    /\ applied' = applied + delta[t]
    /\ cpc' = [cpc EXCEPT ![t] = "idle"]
    /\ bucket' = [bucket EXCEPT ![t] = 0]
    /\ n' = [n EXCEPT ![t] = 0]
    /\ delta' = [delta EXCEPT ![t] = 0]
    /\ count' = [count EXCEPT ![t] = 0]
    /\ loadedFrom' = [loadedFrom EXCEPT ![t] = Unset]
    /\ Overlapped(delta[t])
    /\ UNCHANGED <<kind, BUCKETS, THREADS, ID, sum, next, fret, calls,
                   quiet, observed, targets>>
    /\ UNCHANGED <<censusVars, deriveVars>>

\* try_add_assign: bucket.compare_exchange_weak(count, count.wrapping_add(n),
\* SeqCst, SeqCst) returns Ok, and add_assign returns.
CasOk(t) ==
    /\ cpc[t] = "cas"
    /\ compare_exchange_may_succeed(counters[bucket[t] + 1], count[t])
    /\ counters' = [counters EXCEPT ![bucket[t] + 1] = wrapping_add(count[t], n[t])]
    /\ applied' = applied + delta[t]
    /\ cpc' = [cpc EXCEPT ![t] = "idle"]
    /\ bucket' = [bucket EXCEPT ![t] = 0]
    /\ n' = [n EXCEPT ![t] = 0]
    /\ delta' = [delta EXCEPT ![t] = 0]
    /\ count' = [count EXCEPT ![t] = 0]
    /\ loadedFrom' = [loadedFrom EXCEPT ![t] = Unset]
    /\ Overlapped(delta[t])
    /\ UNCHANGED <<kind, BUCKETS, THREADS, ID, sum, next, fret, calls,
                   quiet, observed, targets>>
    /\ UNCHANGED <<censusVars, deriveVars>>

\* Mutant: the loop repeats the exchange without calling try_add_assign again.
Retry_without_reload == "cas"

\* add_assign's loop: the next iteration calls try_add_assign, which loads.
Retry == "load"

\* try_add_assign: compare_exchange_weak returns Err (the bucket changed, or
\* spuriously), and add_assign moves on to the next bucket.
CasErr(t) ==
    /\ cpc[t] = "cas"
    /\ bucket' = [bucket EXCEPT ![t] = next_bucket(@)]
    /\ cpc' = [cpc EXCEPT ![t] = Retry]
    /\ count' = [count EXCEPT ![t] = 0]
    /\ loadedFrom' = [loadedFrom EXCEPT ![t] = Unset]
    /\ UNCHANGED <<kind, BUCKETS, counters, THREADS, ID, n, sum, next, fret,
                   delta, applied, calls, quiet, observed, targets, seen, reach>>
    /\ UNCHANGED <<censusVars, deriveVars>>

\* One attempt of add_assign's loop, after the load.
TryCas(t) == CasOk(t) \/ CasErr(t)

\* fetch(): let mut sum = 0isize, before the loop over &self.counters.
FetchCall(t) ==
    /\ Distributed
    /\ MayCall(t)
    /\ calls' = [calls EXCEPT ![t] = @ + 1]
    /\ sum' = [sum EXCEPT ![t] = 0]
    /\ next' = [next EXCEPT ![t] = 1]
    /\ cpc' = [cpc EXCEPT ![t] = "fetch"]
    /\ fret' = [fret EXCEPT ![t] = NoValue]
    /\ quiet' = [quiet EXCEPT ![t] = \A u \in Threads : ~Writing(u)]
    /\ targets' = [targets EXCEPT ![t] = <<>>]
    /\ seen' = [seen EXCEPT ![t] = IF observed THEN {BucketTotal(counters)} ELSE {}]
    /\ reach' = [reach EXCEPT ![t] = IF observed THEN {Wrap(applied)} ELSE {}]
    /\ UNCHANGED <<kind, BUCKETS, counters, THREADS, ID, n, bucket,
                   count, delta, applied, observed, loadedFrom>>
    /\ UNCHANGED <<censusVars, deriveVars>>

\* Mutant: each load replaces the sum instead of being added to it.
FetchLoad_overwrites(t) ==
    /\ cpc[t] = "fetch"
    /\ IF next[t] < BUCKETS
          THEN /\ sum' = [sum EXCEPT ![t] = counters[next[t]]]
               /\ next' = [next EXCEPT ![t] = @ + 1]
               /\ UNCHANGED <<cpc, fret>>
          ELSE /\ fret' = [fret EXCEPT ![t] = Returned(counters[next[t]])]
               /\ sum' = [sum EXCEPT ![t] = 0]
               /\ next' = [next EXCEPT ![t] = 0]
               /\ cpc' = [cpc EXCEPT ![t] = "idle"]
    /\ UNCHANGED <<kind, BUCKETS, counters, THREADS, ID, n, bucket,
                   count, delta, applied, calls, quiet, historyVars>>
    /\ UNCHANGED <<censusVars, deriveVars>>

\* fetch(): sum = sum.wrapping_add(counter.load(SeqCst)) for the next counter;
\* after the last one, return sum.
FetchLoad(t) ==
    /\ cpc[t] = "fetch"
    /\ IF next[t] < BUCKETS
          THEN /\ sum' = [sum EXCEPT ![t] = wrapping_add(@, counters[next[t]])]
               /\ next' = [next EXCEPT ![t] = @ + 1]
               /\ UNCHANGED <<cpc, fret>>
          ELSE /\ fret' = [fret EXCEPT ![t] = Returned(wrapping_add(sum[t], counters[next[t]]))]
               /\ sum' = [sum EXCEPT ![t] = 0]
               /\ next' = [next EXCEPT ![t] = 0]
               /\ cpc' = [cpc EXCEPT ![t] = "idle"]
    /\ UNCHANGED <<kind, BUCKETS, counters, THREADS, ID, n, bucket,
                   count, delta, applied, calls, quiet, historyVars>>
    /\ UNCHANGED <<censusVars, deriveVars>>

CounterNext ==
    \/ \E t \in Threads, d \in Deltas : CellAddAssign(t, d)
    \/ \E t \in Threads, d \in Deltas : CellSubAssign(t, d)
    \/ \E t \in Threads : CellFetch(t)
    \/ \E t \in Threads, d \in Deltas : AddAssign(t, d)
    \/ \E t \in Threads, d \in Deltas : SubAssign(t, d)
    \/ \E t \in Threads : TryLoad(t)
    \/ \E t \in Threads : TryCas(t)
    \/ \E t \in Threads : FetchCall(t)
    \/ \E t \in Threads : FetchLoad(t)

CounterSpec == CounterInit /\ [][CounterNext]_vars

\* The writers alone: calls of add_assign and sub_assign on a
\* DistributedCounter (fetch writes nothing the writers read).
FairCounterInit == CounterZero /\ observed = FALSE /\ Distributed

WritersNext ==
    \/ \E t \in Threads, d \in Deltas : AddAssign(t, d)
    \/ \E t \in Threads, d \in Deltas : SubAssign(t, d)
    \/ \E t \in Threads : TryLoad(t)
    \/ \E t \in Threads : TryCas(t)

\* A step of thread t inside the call it is executing.
Step(t) == TryLoad(t) \/ TryCas(t)

\* Every thread goes on executing the call it is in (the scheduler runs every
\* runnable thread), and compare_exchange_weak does not fail for ever on a
\* bucket that holds the expected value.
Fairness ==
    \A t \in Threads : WF_vars(Step(t)) /\ SF_vars(CasOk(t))

FairCounterSpec == FairCounterInit /\ [][WritersNext]_vars /\ Fairness

\* ===================================== derive/src/lib.rs: #[derive(Tabulate)]
\* Mutant: one static per concrete instantiation of the generic type.
counter_per_instantiation(T) == T

\* The generated impl<T> Tabulate for Foo<T> { fn counter() -> &'static C {
\*     static COUNTER: C = <C as Counter>::ZERO; &COUNTER } }
\* A static item in a generic scope is one item, whatever T is.
counter(T) == "Foo::counter::COUNTER"

\* The statics the program holds.
Statics == {counter(T) : T \in Types}

\* Live Instance<T> values of type T.
LiveOf(T) == CopiesIn(T, live)

\* Any change of the population outdates what instances() returned.
Outdated == reads' = [T \in Types |-> NoValue]

DeriveInit ==
    /\ CensusUnused
    /\ CounterUnused
    /\ COUNTER = [c \in Statics |-> 0]
    /\ live = EmptyBag
    /\ reads = [T \in Types |-> NoValue]

\* Instance::<T>::new(): resolve T::counter() and issue one increment.
DeriveNew(T) ==
    /\ BagCardinality(live) < MaxGuards
    /\ COUNTER' = [COUNTER EXCEPT ![counter(T)] = fetch_add_isize(@, 1)]
    /\ live' = live (+) SetToBag({T})
    /\ Outdated
    /\ UNCHANGED <<censusVars, counterVars>>

\* Instance::<T>::clone(): a fresh increment against the same counter.
DeriveClone(T) ==
    /\ BagCardinality(live) < MaxGuards
    /\ BagIn(T, live)
    /\ COUNTER' = [COUNTER EXCEPT ![counter(T)] = fetch_add_isize(@, 1)]
    /\ live' = live (+) SetToBag({T})
    /\ Outdated
    /\ UNCHANGED <<censusVars, counterVars>>

\* Instance::<T>::drop(): exactly one decrement.
DeriveDrop(T) ==
    /\ BagIn(T, live)
    /\ COUNTER' = [COUNTER EXCEPT ![counter(T)] = fetch_sub_isize(@, 1)]
    /\ live' = live (-) SetToBag({T})
    /\ Outdated
    /\ UNCHANGED <<censusVars, counterVars>>

\* T::instances(): resolve T::counter() and return its fetch().
DeriveInstances(T) ==
    /\ reads' = [reads EXCEPT ![T] = Returned(COUNTER[counter(T)])]
    /\ UNCHANGED <<COUNTER, live>>
    /\ UNCHANGED <<censusVars, counterVars>>

DeriveNext ==
    \/ \E T \in Types : DeriveNew(T)
    \/ \E T \in Types : DeriveClone(T)
    \/ \E T \in Types : DeriveDrop(T)
    \/ \E T \in Types : DeriveInstances(T)

DeriveSpec == DeriveInit /\ [][DeriveNext]_vars

\* ================================================================ claims
\* Number of live guards in the set S of guard values.
RECURSIVE GuardCount(_)
GuardCount(S) ==
    IF S = {} THEN 0
    ELSE LET g == CHOOSE x \in S : TRUE
         IN CopiesIn(g, guards) + GuardCount(S \ {g})

LiveBoundTo(a) == GuardCount({g \in BagToSet(guards) : g.count = a})

LiveOfType(T) == GuardCount({g \in BagToSet(guards) : g.ty = T})

\* C2: in every reachable state the value of each counter equals the number of
\* live guards bound to it (one unmatched increment per live guard), so the
\* unsigned count never wraps below zero.
C2_CountIsLiveGuards ==
    \A a \in DOMAIN heap : heap[a] = LiveBoundTo(a)

\* Scenario A: instances() observed 10 after ten constructions; five drops
\* later the count is 5.
C2_Witness ==
    /\ qty = "Foo<i8>"
    /\ ret = 10
    /\ net = -5
    /\ lastOp = "drop"
    /\ LiveOfType("Foo<i8>") = 5
    /\ instances("Foo<i8>") = 5

\* C3: concurrent Instance::new calls for a type without an entry store exactly
\* one counter for it, and every caller (and every guard) is bound to the
\* stored counter; no counter exists that is not the stored one of some type.
C3_OneCounterPerType ==
    /\ Len(heap) = Cardinality({id \in TypeIds : counts[id] # Null})
    /\ \A g \in BagToSet(guards) : g.count = counts[TypeId_of(g.ty)]
    /\ \A t \in Threads :
          pc[t] = "from_count" => census[t] = counts[TypeId_of(ty[t])]

\* Two threads are inside Instance::new for the same, previously unseen type:
\* one has just created the entry, the other is waiting at entry().
C3_Witness ==
    \E t, u \in Threads :
        /\ t # u
        /\ pc[t] = "from_count"
        /\ pc[u] = "entry"
        /\ ty[t] = ty[u]
        /\ heap[census[t]] = 0
        /\ guards = EmptyBag
        /\ lastOp = "none"

\* C6: when N >= 1 guards of T were constructed and as many destroyed since
\* instances::<T>() was read, instances::<T>() is back at the value read.
C6_RoundTrip ==
    (qty # "none" /\ built /\ net = 0) => instances(qty) = ret

C6_Witness ==
    /\ qty # "none"
    /\ built
    /\ net = 0
    /\ lastOp = "drop"
    /\ ret = 3
    /\ instances(qty) = 3
    /\ \A t \in Threads : pc[t] = "idle"

\* C7: a clone is one fresh increment on the counter its source is bound to
\* (and on no other), and every drop is one decrement on the counter the
\* dropped guard is bound to.
C7_CloneOrDropStep ==
    /\ (pc' = pc /\ BagCardinality(guards') = BagCardinality(guards) + 1) =>
          \E g \in BagToSet(guards) :
              /\ guards' = guards (+) SetToBag({g})
              /\ heap' = [heap EXCEPT ![g.count] = heap[g.count] + 1]
              /\ counts' = counts
    /\ (BagCardinality(guards') = BagCardinality(guards) - 1) =>
          \E g \in BagToSet(guards) :
              /\ guards' = guards (-) SetToBag({g})
              /\ heap' = [heap EXCEPT ![g.count] = heap[g.count] - 1]
              /\ counts' = counts

C7_CloneAndDropOnOwnCounter == [][C7_CloneOrDropStep]_vars

\* A clone has just run while two counters exist: the cloned guard's counter
\* reads 2, the other counter still 1.
C7_Witness ==
    /\ lastOp = "clone"
    /\ Len(heap) = 2
    /\ \E g \in BagToSet(guards) :
          /\ CopiesIn(g, guards) = 2
          /\ heap[g.count] = 2
          /\ \A a \in DOMAIN heap : a # g.count => heap[a] = 1

\* The step is part of an Instance::new for A (the calling thread moves), or
\* a clone or a drop of a guard of A (the population of A changes).
OperatesOn(A) ==
    \/ \E t \in Threads : pc'[t] # pc[t] /\ A \in {ty[t], ty'[t]}
    \/ pc' = pc /\ LiveOfType(A)' # LiveOfType(A)

\* C8: constructing, cloning or dropping guards of a type A never changes what
\* instances::<B>() observes for another type B.
C8_Independence ==
    [][\A A \in Types : OperatesOn(A) =>
          \A B \in Types \ {A} : instances(B)' = instances(B)]_vars

\* Ten Foo<i8> have been created and Foo<u8> still counts 0.
C8_Witness ==
    /\ lastOp \in {"new", "clone"}
    /\ instances("Foo<i8>") = 10
    /\ instances("Foo<u8>") = 0

\* C9: instances() on a type without a registry entry returns 0, whatever else
\* the registry holds.
C9_UntrackedReadsZero ==
    (qty # "none" /\ Vacant(TypeId_of(qty))) => ret = 0

\* Foo<u8> was queried and has no entry while Foo<i8> is populated.
C9_Witness ==
    /\ lastOp = "instances"
    /\ qty = "Foo<u8>"
    /\ Vacant(TypeId_of("Foo<u8>"))
    /\ ret = 0
    /\ instances("Foo<i8>") = 2

\* C10 as claimed: after instances() on a type, the registry holds an entry
\* for that type.
C10_QueryCreatesEntry ==
    lastOp = "instances" => ~Vacant(TypeId_of(qty))

\* C10 as amended: instances() changes nothing; in particular it creates no
\* registry entry and modifies no counter.
C10_QueryChangesNothing ==
    [][(\E t \in Threads, T \in Types : Instances(t, T)) =>
          UNCHANGED <<counts, heap, guards, lock>>]_vars

\* A query has just run on an empty registry, which is still empty.
C10_Witness ==
    /\ lastOp = "instances"
    /\ \A id \in TypeIds : Vacant(id)
    /\ heap = <<>>
    /\ ret = 0

\* A registry entry stays, bound to the same counter, and the counters
\* referenced by the registry and by the live guards stay allocated.
C11_EntryStep ==
    /\ \A id \in TypeIds : counts[id] # Null => counts'[id] = counts[id]
    /\ \A a \in DOMAIN heap : a \in DOMAIN heap'
    /\ \A g \in BagToSet(guards') : g.count \in DOMAIN heap'

\* C11: once the registry holds an entry for a type identifier, no
\* Instance::new, clone, drop or instances() call removes the entry or
\* replaces its counter, so the counter a guard refers to stays valid.
C11_EntryIsPermanent == [][C11_EntryStep]_vars

\* Both types have an entry, the last guard of Foo<u8> has just been dropped
\* (its counter reads 0) and the entry of Foo<u8> is still there.
C11_Witness ==
    /\ lastOp = "drop"
    /\ counts[TypeId_of("Foo<i8>")] # Null
    /\ counts[TypeId_of("Foo<u8>")] # Null
    /\ LiveOfType("Foo<u8>") = 0
    /\ LiveOfType("Foo<i8>") = 1
    /\ instances("Foo<u8>") = 0

\* C12 as claimed: with the dynamic registry all instantiations of the Foo
\* family share one counter, so between operations instances() of each of
\* them reads the population of the whole family (15 and 15 after constructing
\* 10 Foo<i8> and 5 Foo<u8>).
C12_FamilySharesCounter ==
    (\A t \in Threads : pc[t] = "idle") =>
        \A T \in Types :
            instances(T) = LiveOfType("Foo<i8>") + LiveOfType("Foo<u8>")

\* C12 as amended: with the dynamic registry every concrete instantiation has
\* its own counter, and instances() of each reads its own population (10 and
\* 5 after constructing 10 Foo<i8> and 5 Foo<u8>).
C12_CounterPerInstantiation ==
    /\ \A T \in Types : instances(T) = LiveOfType(T)
    /\ \A A, B \in Types :
          (A # B /\ ~Vacant(TypeId_of(A)) /\ ~Vacant(TypeId_of(B))) =>
              counts[TypeId_of(A)] # counts[TypeId_of(B)]

\* Ten Foo<i8> and five Foo<u8> are alive, and instances::<Foo<u8>>() has just
\* returned 5 while the counter of Foo<i8> reads 10.
C12_Witness ==
    /\ lastOp = "instances"
    /\ qty = "Foo<u8>"
    /\ ret = 5
    /\ LiveOfType("Foo<i8>") = 10
    /\ LiveOfType("Foo<u8>") = 5
    /\ instances("Foo<i8>") = 10

\* ------------------------------------------------ claims on derive/src/lib.rs
\* C13 as claimed: with the counter of the generated counter(), every concrete
\* instantiation has its own counter: instances() of each reads its own
\* population (10 for Foo<i8>, 5 for Foo<u8>).
C13_PerInstantiationCounter ==
    \A T \in Types : reads[T] # NoValue => reads[T] = Returned(LiveOf(T))

\* C13 as amended: all instantiations of the generic type share the one static
\* of the generated counter(): instances() of each reads the population of
\* all of them together (15 and 15).
C13_StaticSharedByFamily ==
    \A T \in Types : reads[T] # NoValue => reads[T] = Returned(BagCardinality(live))

\* Ten Foo<i8> and five Foo<u8> are alive and instances() has returned 15 for
\* both.
C13_Witness ==
    /\ LiveOf("Foo<i8>") = 10
    /\ LiveOf("Foo<u8>") = 5
    /\ reads["Foo<i8>"] = Returned(15)
    /\ reads["Foo<u8>"] = Returned(15)

\* ---------------------------------------------------- claims on counter.rs
\* Thread t holds the result of a fetch that began after every add_assign /
\* sub_assign call had returned, and none has been issued since.
Settled(t) == fret[t] # NoValue /\ quiet[t]

\* No call is in flight and none has panicked: every call has returned.
AllReturned == \A u \in Threads : cpc[u] = "idle"

\* C1 as claimed: once every call on a DistributedCounter has returned,
\* fetch() returns exactly the arithmetic sum of all deltas.
C1_ExactSum ==
    \A t \in Threads :
        (Distributed /\ AllReturned /\ Settled(t)) => fret[t] = Returned(applied)

\* C1 as amended: once the calls on a DistributedCounter have returned, fetch()
\* returns the sum of all deltas reduced modulo 2^w into isize (the exact sum
\* whenever it is representable): no update is lost or applied twice.
C1_SumModulo ==
    \A t \in Threads :
        (Distributed /\ Settled(t)) => fret[t] = Returned(Wrap(applied))

\* Two threads have each added into their own bucket, the exact sum is not
\* representable, and a fetch after both calls returned the wrapped sum.
C1_Witness ==
    /\ Distributed
    /\ BUCKETS = 2
    /\ AllReturned
    /\ THREADS = 2
    /\ counters[1] # 0
    /\ counters[2] # 0
    /\ applied \notin MinIsize..MaxIsize
    /\ \E t \in Threads : Settled(t) /\ fret[t] = Returned(Wrap(applied))

\* C4 as claimed: for RelaxedCounter and SeqCstCounter, once the calls have
\* completed fetch() equals the true net count.
C4_ExactNet ==
    \A t \in Threads : (Cell /\ Settled(t)) => fret[t] = Returned(applied)

\* C4 as amended: ... fetch() equals the net count reduced modulo 2^w into
\* isize (the exact net count whenever it is representable).
C4_NetModulo ==
    \A t \in Threads : (Cell /\ Settled(t)) => fret[t] = Returned(Wrap(applied))

\* Every thread has called a RelaxedCounter, the net count of an add_assign
\* and a sub_assign is isize::MIN - 1, and fetch returned isize::MAX.
C4_Witness ==
    /\ kind = "RelaxedCounter"
    /\ \A u \in Threads : calls[u] >= 1
    /\ applied = MinIsize - 1
    /\ \E t \in Threads : Settled(t) /\ fret[t] = Returned(MaxIsize)

\* Only thread t has ever called the counter.
Solo(t) == \A u \in Threads \ {t} : calls[u] = 0

C15_SumOfSucceeded ==
    Distributed => BucketTotal(counters) = Wrap(applied)

\* A successful attempt changes its own bucket by n and no other and ends the
\* call; a failed attempt changes no bucket and the call goes on; nothing else
\* changes a bucket.
C15_AttemptStep ==
    Distributed =>
        /\ \A t \in Threads :
              /\ (cpc[t] = "cas" /\ cpc'[t] = "idle") =>
                    counters' = [counters EXCEPT
                                    ![bucket[t] + 1] = wrapping_add(@, n[t])]
              /\ (cpc[t] = "cas" /\ cpc'[t] = "load") => counters' = counters
              /\ (Writing(t) /\ ~Writing(t)') => cpc[t] = "cas"
        /\ counters' # counters =>
              \E t \in Threads : cpc[t] = "cas" /\ cpc'[t] = "idle"

C16_AttemptTargets ==
    \A t \in Threads :
        /\ Writing(t) => bucket[t] \in 0..(BUCKETS - 1)
        /\ \A k \in 1..Len(targets[t]) :
              targets[t][k] = (ID[t] + (k - 1)) % BUCKETS
        /\ \A i \in 1..(Len(targets[t]) - BUCKETS + 1) :
              Cardinality({targets[t][j] : j \in i..(i + BUCKETS - 1)}) = BUCKETS
        /\ cpc[t] = "cas" => loadedFrom[t] = bucket[t]

\* The thread with identity 1 is in its third attempt on a
\* DistributedCounter<2>: it has tried buckets 1 and 0 and is back at 1.
C16_Witness ==
    \E t \in Threads :
        /\ BUCKETS = 2
        /\ ID[t] = 1
        /\ cpc[t] = "cas"
        /\ targets[t] = <<1, 0, 1>>
        /\ bucket[t] = 1

\* C17: a fetch() can return a value the true total never held while it ran;
\* it does so only on a counter with B >= 2 buckets that was written while
\* the fetch ran.
C17_TornFetchOnlyWhenRaced ==
    \A t \in Threads :
        (Distributed /\ observed /\ fret[t] # NoValue /\ fret[t][1] \notin seen[t]) =>
            (BUCKETS >= 2 /\ Cardinality(reach[t]) > 1)

\* A fetch on a DistributedCounter<2> has returned a negative value although
\* the total was never negative while it ran.
C17_Witness ==
    \E t \in Threads :
        /\ Distributed
        /\ BUCKETS = 2
        /\ fret[t] # NoValue
        /\ fret[t][1] < 0
        /\ seen[t] # {}
        /\ \A x \in seen[t] : x >= 0

\* C18: DistributedCounter::sub_assign(n) completes without failing for every
\* n, isize::MIN included.
C18_SubAssignNeverFails ==
    \A t \in Threads : cpc[t] # "panicked"

\* The identities in use are distinct and are exactly 0 .. THREADS - 1.
C19_Distinct ==
    /\ \A t, u \in Threads : (t # u /\ ID[t] # Unset) => ID[t] # ID[u]
    /\ {ID[t] : t \in {u \in Threads : ID[u] # Unset}} = 0..(THREADS - 1)

\* An identity, once assigned, stays; a first use hands out the number of
\* threads that came before; THREADS only increases.
C19_AssignStep ==
    /\ \A t \in Threads :
          /\ ID[t] # Unset => ID'[t] = ID[t]
          /\ (ID[t] = Unset /\ ID'[t] # Unset) =>
                ID'[t] = Cardinality({u \in Threads : ID[u] # Unset})
    /\ THREADS' >= THREADS

\* C19: thread identities are assigned once per thread on first use from a
\* counter that only increases: later calls see the same identity, distinct
\* threads get distinct identities, and they are 0, 1, 2, ... in order of
\* first use.
C19_ThreadIdentities == []C19_Distinct /\ [][C19_AssignStep]_vars

\* Both threads have completed an add_assign on a DistributedCounter<2>, each
\* in its home bucket, and the one that came second is inside its second
\* add_assign, still with identity 1.
C19_Witness ==
    \E t, u \in Threads :
        /\ BUCKETS = 2
        /\ ID[u] = 0
        /\ ID[t] = 1
        /\ calls[u] = 1
        /\ cpc[u] = "idle"
        /\ calls[t] = 2
        /\ Writing(t)
        /\ counters[1] # 0
        /\ counters[2] # 0
        /\ THREADS = 2

====
